---------------------------- MODULE Spec2Model ----------------------------
(***************************************************************************)
(* Verification model of the RLHF example scripts (train_reward.py,        *)
(* train_rlhf.py) and of the distributed-collector test suite              *)
(* (test_distributed.py).                                                  *)
(*                                                                         *)
(* Five sub-systems share the module, each with its own specification:     *)
(*   SpecFreeze   the layer-freezing loop of both training scripts         *)
(*   SpecFlatten  flatten_td of train_rlhf.py                              *)
(*   SpecPPO      the replay-buffer handling of the PPO loop               *)
(*   SpecCkpt     evaluation and checkpointing in both training loops      *)
(*   Spec         a test of test_distributed.py: parent process, child     *)
(*                process (the learner) and the collector's nodes          *)
(***************************************************************************)
EXTENDS Integers, Sequences, FiniteSets, TLC

VARIABLES
    \* ---- layer freezing (train_reward.py 77-82, train_rlhf.py 139-143)
    fzScript,       \* which script runs
    layers,         \* layers[i] = requires_grad of hidden layer i
    fzPending,      \* indices the for loop still has to visit
    fzPc,           \* "slice" | "loop" | "done"
    \* ---- flatten_td (train_rlhf.py 22-31)
    flB,            \* batch size B
    flT,            \* trajectory length T
    flDone,         \* td["next", "done"]: flDone[b][t]
    flPc,           \* "call" | "returned"
    flOut,          \* what flatten_td produced
    \* ---- PPO loop of train_rlhf.py (169-203)
    ppoCfg,         \* the configuration values read in main
    it,             \* the outer loop's iteration
    rb,             \* the replay buffer: storage (a frame is the iteration
                    \* that produced it), write cursor, sampled indices
    roll,           \* the rollout loop's counter
    epoch,          \* the epoch loop's counter
    minibatch,      \* the minibatch the inner loop holds
    ppoPc,          \* position in main
    \* ---- evaluation and checkpoints (train_reward.py 93-127,
    \*      train_rlhf.py 175-214)
    ckScript,       \* which script runs
    ckCfg,          \* max_iters, eval_interval, log_interval,
                    \* always_save_checkpoint
    ckIt,           \* the training loop's iteration
    best_val,       \* best_val_loss / best_val_reward
    evals,          \* the evaluations made so far: iteration and metric
    saves,          \* the iterations at which save_pretrained was called
    ckPc,           \* "body" | "eval" | "finished"
    \* ---- one test of test_distributed.py
    cfg,            \* the test: class, method and its parameters
    parentPc,       \* the pytest process: "start" | "get" | "join" | "close"
                    \*   | "done" | "raised"
    parentFailed,   \* an exception is pending while the finally block runs
    queue,          \* mp.Queue(1)
    out,            \* what queue.get returned
    childPc,        \* the child process (the learner)
    collector,      \* the collector the child built: its arguments, state
    nodeWeight,     \* nodeWeight[n]: the policy weight node n acts with
    stream,         \* batches collected by the nodes and not yet delivered
    collected,      \* frames the collector has delivered
    j,              \* batches the collector has delivered
    policyWeight,   \* policy.weight in the learner
    data,           \* the batch the loop body holds
    total,          \* the test's frame count
    batch_i,        \* enumerate's index i
    first_batch,
    last_batch

fzVars == <<fzScript, layers, fzPending, fzPc>>
flVars == <<flB, flT, flDone, flPc, flOut>>
ppoVars == <<ppoCfg, it, rb, roll, epoch, minibatch, ppoPc>>
parentVars == <<parentPc, parentFailed, out>>
collectorVars == <<collector, nodeWeight, stream, collected, j>>
learnerVars == <<policyWeight, data, total, batch_i, first_batch, last_batch>>
ckVars == <<ckScript, ckCfg, ckIt, best_val, evals, saves, ckPc>>
dcVars == <<cfg, parentVars, queue, childPc, collectorVars, learnerVars>>
vars == <<fzVars, flVars, ppoVars, ckVars, dcVars>>

(***************************************************************************)
(* Sequence helpers                                                        *)
(***************************************************************************)
Range(s) == {s[i] : i \in DOMAIN s}

Min(a, b) == IF a <= b THEN a ELSE b

Max(a, b) == IF a >= b THEN a ELSE b

(***************************************************************************)
(* Layer freezing                                                          *)
(***************************************************************************)
MaxLayers == 12

\* int(0.3 * n): the double nearest 0.3 is below 0.3 by 1.1e-17, the product
\* rounds to the nearest double, which is 3n/10 itself whenever that is an
\* integer, so the truncation equals floor(3n / 10) for every n below 10^5.
IntOfThreeTenths(n) == (3 * n) \div 10

\* Python's seq[:stop] for a sequence of length len: a negative stop counts
\* from the end, and -0 is 0.
PySliceStop(len, stop) ==
    IF stop < 0 THEN Max(len + stop, 0) ELSE Min(stop, len)

NumUnfrozen(n) == IntOfThreeTenths(n)

\* layers[:-num_unfrozen], as the indices it selects
FrozenSlice(n) ==
    [i \in 1..PySliceStop(n, 0 - NumUnfrozen(n)) |-> i]

InitFreezeIdle ==
    /\ fzScript = "none"
    /\ layers = <<>>
    /\ fzPending = <<>>
    /\ fzPc = "done"

InitFreeze ==
    /\ fzScript \in {"train_reward", "train_rlhf"}
    /\ \E n \in 1..MaxLayers : layers = [i \in 1..n |-> TRUE]
    /\ fzPending = <<>>
    /\ fzPc = "slice"

\* layers = model.transformer.h ... layers[:-num_unfrozen]
FreezeSlice ==
    /\ fzPc = "slice"
    /\ fzPending' = FrozenSlice(Len(layers))
    /\ fzPc' = "loop"
    /\ UNCHANGED <<fzScript, layers>>

\* one pass of the for loop: layer.requires_grad_(False)
FreezeLayer ==
    /\ fzPc = "loop"
    /\ fzPending # <<>>
    /\ layers' = [layers EXCEPT ![Head(fzPending)] = FALSE]
    /\ fzPending' = Tail(fzPending)
    /\ UNCHANGED <<fzScript, fzPc>>

FreezeEnd ==
    /\ fzPc = "loop"
    /\ fzPending = <<>>
    /\ fzPc' = "done"
    /\ UNCHANGED <<fzScript, layers, fzPending>>

NextFreeze ==
    \/ FreezeSlice /\ UNCHANGED <<flVars, ppoVars, ckVars, dcVars>>
    \/ FreezeLayer /\ UNCHANGED <<flVars, ppoVars, ckVars, dcVars>>
    \/ FreezeEnd /\ UNCHANGED <<flVars, ppoVars, ckVars, dcVars>>

(***************************************************************************)
(* flatten_td                                                              *)
(***************************************************************************)
MaxB == 3
MaxT == 3

\* mask = zeros_like(done); mask[..., 1:, :] = done[..., :-1, :]
ShiftByOne(done, B, T) ==
    [b \in 1..B |-> [t \in 1..T |-> IF t = 1 THEN FALSE ELSE done[b][t - 1]]]

\* mask.cumsum(-2): running count along the time dimension
CumSum(mask, B, T) ==
    [b \in 1..B |-> [t \in 1..T |-> Cardinality({s \in 1..t : mask[b][s]})]]

\* ~mask.cumsum(-2).bool()
KeepMask(done, B, T) ==
    LET c == CumSum(ShiftByOne(done, B, T), B, T)
    IN  [b \in 1..B |-> [t \in 1..T |-> ~(c[b][t] # 0)]]

\* Tensor.squeeze() without a dim: every dimension of size 1 is removed
IsNotOne(d) == d # 1
Squeeze(shape) == SelectSeq(shape, IsNotOne)

\* the (b, t) pairs of a [B, T] batch in row-major order that the mask keeps
RECURSIVE RowMajorFrom(_, _, _, _, _)
RowMajorFrom(keep, B, T, b, t) ==
    IF b > B THEN <<>>
    ELSE IF t > T THEN RowMajorFrom(keep, B, T, b + 1, 1)
    ELSE (IF keep[b][t] THEN <<(<<b, t>>)>> ELSE <<>>)
             \o RowMajorFrom(keep, B, T, b, t + 1)

RowMajor(keep, B, T) == RowMajorFrom(keep, B, T, 1, 1)

IndexError == [ok |-> FALSE, shape |-> <<>>, rows |-> <<>>]

\* td[mask] for td of batch shape [B, T] and a boolean mask of shape mshape:
\* the mask's dimensions must equal the leading dimensions of the batch, or
\* the index is refused; the selected entries come in row-major order along
\* a first dimension of size N. When the mask covers fewer dimensions than
\* the batch has, the library decides whether the batch keeps the others.
IndexByMask(keep, B, T, mshape) ==
    LET rows == RowMajor(keep, B, T)
        N == Len(rows)
    IN  IF mshape = <<B, T>>
          THEN {[ok |-> TRUE, shape |-> <<N>>, rows |-> rows]}
        ELSE IF mshape = <<B>>
          THEN {[ok |-> TRUE, shape |-> sh, rows |-> rows] :
                    sh \in {<<N>>, <<N, T>>}}
        ELSE IF mshape = <<>>
          THEN {[ok |-> TRUE, shape |-> sh, rows |-> rows] :
                    sh \in {<<N>>, <<N, B, T>>}}
        ELSE {IndexError}

MaskShape(B, T) == Squeeze(<<B, T, 1>>)

\* flatten_td(td): the outcomes it can have
flatten_td(done, B, T) ==
    IndexByMask(KeepMask(done, B, T), B, T, MaskShape(B, T))

InitFlattenIdle ==
    /\ flB = 0
    /\ flT = 0
    /\ flDone = <<>>
    /\ flPc = "returned"
    /\ flOut = IndexError

InitFlatten ==
    /\ flB \in 1..MaxB
    /\ flT \in 1..MaxT
    /\ flDone \in [1..flB -> [1..flT -> BOOLEAN]]
    /\ flPc = "call"
    /\ flOut = IndexError

FlattenCall ==
    /\ flPc = "call"
    /\ flOut' \in flatten_td(flDone, flB, flT)
    /\ flPc' = "returned"
    /\ UNCHANGED <<flB, flT, flDone>>

NextFlatten ==
    FlattenCall /\ UNCHANGED <<fzVars, ppoVars, ckVars, dcVars>>

(***************************************************************************)
(* The PPO loop and its replay buffer                                      *)
(***************************************************************************)
MaxIters == 2
MaxBatchSize == 2
MaxRollouts == 3
EpisodeLength == 2
PpoBatchSize == 2
NumEpochs == 2

\* LazyTensorStorage(episode_length * num_rollouts)
RbCapacity(c) == c.episode_length * c.num_rollouts

\* TensorDictReplayBuffer(storage=..., sampler=SamplerWithoutReplacement())
RbNew == [storage |-> <<>>, cursor |-> 0, sampled |-> {}]

\* rb.empty(): storage, writer and sampler start again
RbEmpty(b) == RbNew

\* the storage after one frame is written at 0-based index at
RbWrite(storage, at, frame) ==
    IF at + 1 <= Len(storage)
      THEN [storage EXCEPT ![at + 1] = frame]
      ELSE Append(storage, frame)

\* rb.extend(n frames): the round-robin writer wraps at the capacity
RECURSIVE RbExtend(_, _, _, _)
RbExtend(b, n, frame, cap) ==
    IF n = 0 THEN b
    ELSE RbExtend([b EXCEPT !.storage = RbWrite(b.storage, b.cursor, frame),
                            !.cursor = (b.cursor + 1) % cap],
                  n - 1, frame, cap)

\* for minibatch in rb: the sampler starts a new pass over the storage
RbIter(b) == [b EXCEPT !.sampled = {}]

\* the index sets one draw without replacement can return: batch_size
\* indices not drawn in this pass, or all that are left when fewer remain.
\* Draws that differ only in which of several equal frames they take give
\* the same minibatch; of those the one with the lowest indices is kept.
RbDraws(b, size) ==
    LET left == (1..Len(b.storage)) \ b.sampled
    IN  {S \in SUBSET left :
            /\ Cardinality(S) = Min(size, Cardinality(left))
            /\ \A x \in S : \A y \in left \ S :
                  b.storage[y] = b.storage[x] => x < y}

\* line 178, the buffer an outer iteration starts with
IterStartKeepsBuffer(b) == b
IterStartBuffer(b) == RbEmpty(b)

InitPPOIdle ==
    /\ ppoCfg = [batch_size |-> 0, num_rollouts |-> 0, episode_length |-> 0,
                 ppo_batch_size |-> 0, num_epochs |-> 0, max_iters |-> 0]
    /\ it = 0
    /\ rb = RbNew
    /\ roll = 0
    /\ epoch = 0
    /\ minibatch = <<>>
    /\ ppoPc = "finished"

\* the state main is in when it reaches line 177
InitPPO ==
    /\ \E bs \in 1..MaxBatchSize, nr \in 1..MaxRollouts :
          ppoCfg = [batch_size |-> bs, num_rollouts |-> nr,
                    episode_length |-> EpisodeLength,
                    ppo_batch_size |-> PpoBatchSize,
                    num_epochs |-> NumEpochs, max_iters |-> MaxIters]
    /\ it = 1
    /\ rb = RbNew
    /\ roll = 0
    /\ epoch = 0
    /\ minibatch = <<>>
    /\ ppoPc = "iter"

\* for it in trange(1, max_iters + 1): rb.empty(); rollout_rewards = []
PPOIterStart ==
    /\ ppoPc = "iter"
    /\ it <= ppoCfg.max_iters
    /\ rb' = IterStartBuffer(rb)
    /\ roll' = 0
    /\ ppoPc' = "rollout"
    /\ UNCHANGED <<ppoCfg, it, epoch, minibatch>>

PPOFinish ==
    /\ ppoPc = "iter"
    /\ it > ppoCfg.max_iters
    /\ ppoPc' = "finished"
    /\ UNCHANGED <<ppoCfg, it, rb, roll, epoch, minibatch>>

\* one pass of for _ in range(0, num_rollouts, batch_size): the rollout's
\* done flags are the environment's choice; flatten_td may raise
PPORollout ==
    /\ ppoPc = "rollout"
    /\ roll < ppoCfg.num_rollouts
    /\ \E done \in [1..ppoCfg.batch_size -> [1..ppoCfg.episode_length -> BOOLEAN]] :
         \E flat \in flatten_td(done, ppoCfg.batch_size, ppoCfg.episode_length) :
            IF flat.ok
              THEN /\ rb' = RbExtend(rb, Len(flat.rows), it, RbCapacity(ppoCfg))
                   /\ roll' = roll + ppoCfg.batch_size
                   /\ ppoPc' = "rollout"
              ELSE /\ ppoPc' = "raised"
                   /\ UNCHANGED <<rb, roll>>
    /\ UNCHANGED <<ppoCfg, it, epoch, minibatch>>

PPORolloutsEnd ==
    /\ ppoPc = "rollout"
    /\ roll >= ppoCfg.num_rollouts
    /\ epoch' = 0
    /\ ppoPc' = "epochs"
    /\ UNCHANGED <<ppoCfg, it, rb, roll, minibatch>>

\* for _epoch in range(num_epochs): for minibatch in rb
PPOEpochStart ==
    /\ ppoPc = "epochs"
    /\ epoch < ppoCfg.num_epochs
    /\ rb' = RbIter(rb)
    /\ ppoPc' = "sample"
    /\ UNCHANGED <<ppoCfg, it, roll, epoch, minibatch>>

\* the buffer yields the next minibatch, or the pass is over
PPOSample ==
    /\ ppoPc = "sample"
    /\ IF (1..Len(rb.storage)) \ rb.sampled = {}
         THEN /\ epoch' = epoch + 1
              /\ ppoPc' = "epochs"
              /\ UNCHANGED <<rb, minibatch>>
         ELSE /\ \E S \in RbDraws(rb, ppoCfg.ppo_batch_size) :
                    /\ minibatch' = [i \in S |-> rb.storage[i]]
                    /\ rb' = [rb EXCEPT !.sampled = rb.sampled \cup S]
              /\ ppoPc' = "train"
              /\ UNCHANGED epoch
    /\ UNCHANGED <<ppoCfg, it, roll>>

\* lines 194-203: the loss and the optimizer step on the minibatch
PPOTrain ==
    /\ ppoPc = "train"
    /\ ppoPc' = "sample"
    /\ UNCHANGED <<ppoCfg, it, rb, roll, epoch, minibatch>>

\* the epochs are over: the iteration ends
PPOIterEnd ==
    /\ ppoPc = "epochs"
    /\ epoch >= ppoCfg.num_epochs
    /\ it' = it + 1
    /\ ppoPc' = "iter"
    /\ UNCHANGED <<ppoCfg, rb, roll, epoch, minibatch>>

NextPPO ==
    \/ PPOIterStart /\ UNCHANGED <<fzVars, flVars, ckVars, dcVars>>
    \/ PPOFinish /\ UNCHANGED <<fzVars, flVars, ckVars, dcVars>>
    \/ PPORollout /\ UNCHANGED <<fzVars, flVars, ckVars, dcVars>>
    \/ PPORolloutsEnd /\ UNCHANGED <<fzVars, flVars, ckVars, dcVars>>
    \/ PPOEpochStart /\ UNCHANGED <<fzVars, flVars, ckVars, dcVars>>
    \/ PPOSample /\ UNCHANGED <<fzVars, flVars, ckVars, dcVars>>
    \/ PPOTrain /\ UNCHANGED <<fzVars, flVars, ckVars, dcVars>>
    \/ PPOIterEnd /\ UNCHANGED <<fzVars, flVars, ckVars, dcVars>>

(***************************************************************************)
(* Evaluation and checkpoints: train_reward.py 93-127, train_rlhf.py       *)
(* 175-214.  A metric is a finite number; the training step itself and the *)
(* value estimate_loss returns are the run's choice.                       *)
(***************************************************************************)
MaxTrainIters == 4
MaxEvalInterval == 3
MaxMetric == 2

TrainScripts == {"train_reward", "train_rlhf"}

\* the values estimate_loss can return
Metrics == 0..MaxMetric

\* float("inf") and float("-inf") against the finite metrics
PosInf == MaxMetric + 1
NegInf == 0 - 1

\* best_val_loss = float("inf") / best_val_reward = float("-inf")
InitialBest(script) == IF script = "train_reward" THEN PosInf ELSE NegInf

\* val_loss < best_val_loss / val_reward > best_val_reward
ImprovesOrTies(script, val, best) ==
    IF script = "train_reward" THEN val <= best ELSE val >= best
Improves(script, val, best) ==
    IF script = "train_reward" THEN val < best ELSE val > best

InitCkptIdle ==
    /\ ckScript = "none"
    /\ ckCfg = [max_iters |-> 0, eval_interval |-> 1,
                always_save_checkpoint |-> FALSE]
    /\ ckIt = 1
    /\ best_val = 0
    /\ evals = <<>>
    /\ saves = {}
    /\ ckPc = "finished"

\* the state main is in when it enters the training loop
InitCkpt ==
    /\ ckScript \in TrainScripts
    /\ \E ei \in 1..MaxEvalInterval, always \in BOOLEAN :
          ckCfg = [max_iters |-> MaxTrainIters, eval_interval |-> ei,
                   always_save_checkpoint |-> always]
    /\ ckIt = 1
    /\ best_val = InitialBest(ckScript)
    /\ evals = <<>>
    /\ saves = {}
    /\ ckPc = "body"

\* for it in range(1, max_iters + 1): the training step (train_reward) or
\* the rollouts and the PPO epochs (train_rlhf)
CkTrainStep ==
    /\ ckPc = "body"
    /\ ckIt <= ckCfg.max_iters
    /\ ckPc' = "eval"
    /\ UNCHANGED <<ckScript, ckCfg, ckIt, best_val, evals, saves>>

\* if it % eval_interval == 0: evaluate, compare, store, save
CkEvaluate ==
    /\ ckPc = "eval"
    /\ ckIt % ckCfg.eval_interval = 0
    /\ \E val \in Metrics :
          /\ evals' = Append(evals, [it |-> ckIt, val |-> val])
          /\ IF \/ Improves(ckScript, val, best_val)
                \/ ckCfg.always_save_checkpoint
               THEN /\ best_val' = val
                    /\ saves' = IF ckIt > 0 THEN saves \cup {ckIt} ELSE saves
               ELSE UNCHANGED <<best_val, saves>>
    /\ ckIt' = ckIt + 1
    /\ ckPc' = "body"
    /\ UNCHANGED <<ckScript, ckCfg>>

\* elif it % log_interval == 0: print; nothing is evaluated or saved
CkLog ==
    /\ ckPc = "eval"
    /\ ckIt % ckCfg.eval_interval # 0
    /\ ckIt' = ckIt + 1
    /\ ckPc' = "body"
    /\ UNCHANGED <<ckScript, ckCfg, best_val, evals, saves>>

\* the range is exhausted
CkFinish ==
    /\ ckPc = "body"
    /\ ckIt > ckCfg.max_iters
    /\ ckPc' = "finished"
    /\ UNCHANGED <<ckScript, ckCfg, ckIt, best_val, evals, saves>>

NextCkpt ==
    \/ CkTrainStep /\ UNCHANGED <<fzVars, flVars, ppoVars, dcVars>>
    \/ CkEvaluate /\ UNCHANGED <<fzVars, flVars, ppoVars, dcVars>>
    \/ CkLog /\ UNCHANGED <<fzVars, flVars, ppoVars, dcVars>>
    \/ CkFinish /\ UNCHANGED <<fzVars, flVars, ppoVars, dcVars>>

(***************************************************************************)
(* test_distributed.py: the tests                                          *)
(***************************************************************************)
TestClasses ==
    {"TestDistributedCollector", "TestRPCCollector", "TestSyncCollector"}

CollectorClasses ==
    {"SyncDataCollector", "MultiSyncDataCollector", "MultiaSyncDataCollector"}

Config(cls, test, nodes, tf, fpb, sync, cc, ui) ==
    [cls |-> cls, test |-> test, nodes |-> nodes, total_frames |-> tf,
     frames_per_batch |-> fpb, sync |-> sync, collector_class |-> cc,
     update_interval |-> ui]

\* test_distributed_collector_basic: frames_per_batch in [50, 100]
BasicConfigs ==
    {Config(cls, "basic", 1, 1000, fpb, FALSE, "SyncDataCollector", 1) :
        cls \in TestClasses, fpb \in {50, 100}}

\* test_distributed_collector_mult: [env] * 2, frames_per_batch=300
MultConfigs ==
    {Config(cls, "mult", 2, 1000, 300, FALSE, "SyncDataCollector", 1) :
        cls \in TestClasses}

\* test_distributed_collector_sync: sync in [False, True]; TestSyncCollector
\* skips it
SyncConfigs ==
    {Config(cls, "sync", 1, 200, 50, sync, "SyncDataCollector", 1) :
        cls \in TestClasses \ {"TestSyncCollector"}, sync \in BOOLEAN}

\* test_distributed_collector_class: the three inner collector classes
ClassConfigs ==
    {Config(cls, "class", 1, 200, 50, FALSE, cc, 1) :
        cls \in TestClasses, cc \in CollectorClasses}

\* test_distributed_collector_updatepolicy of the base class
UpdatePolicyConfigs ==
    {Config(cls, "updatepolicy", 2, 2000, 50, sync, cc, 1) :
        cls \in TestClasses \ {"TestSyncCollector"},
        sync \in BOOLEAN, cc \in CollectorClasses}

\* TestSyncCollector.test_distributed_collector_updatepolicy:
\* update_interval in [1_000_000, 1]
SyncUpdatePolicyConfigs ==
    {Config("TestSyncCollector", "updatepolicy", 2, 2000, 50, TRUE, cc, ui) :
        cc \in CollectorClasses, ui \in {1000000, 1}}

TestConfigs ==
    BasicConfigs \cup MultConfigs \cup SyncConfigs \cup ClassConfigs
        \cup UpdatePolicyConfigs \cup SyncUpdatePolicyConfigs

\* the class whose classmethod the child runs: test_distributed_collector_sync
\* names TestDistributedCollector._test_distributed_collector_sync
ChildClass(c) ==
    IF c.test = "sync" THEN "TestDistributedCollector" ELSE c.cls

\* distributed_class()
DistributedClass(c) ==
    CASE ChildClass(c) = "TestDistributedCollector" -> "DistributedDataCollector"
      [] ChildClass(c) = "TestRPCCollector" -> "RPCDataCollector"
      [] OTHER -> "DistributedSyncDataCollector"

\* Python's a // b (floor division), b # 0
PyFloorDivTruncates(a, b) ==
    IF b > 0 THEN a \div b ELSE 0 - (a \div (0 - b))
PyFloorDiv(a, b) ==
    IF b > 0 THEN a \div b ELSE (0 - a) \div (0 - b)

\* the total the test asserts after the loop: 1000, 200 or 2000, and
\* -frames_per_batch * (1000 // -frames_per_batch) in the mult test
ExpectedTotal(c) ==
    IF c.test = "mult"
      THEN (0 - c.frames_per_batch) * PyFloorDiv(1000, 0 - c.frames_per_batch)
      ELSE c.total_frames

\* whether the loop body calls collector.update_policy_weights_() at i == 0:
\* the base test does, TestSyncCollector's test does not
CallsUpdateNever(c) == FALSE
CallsUpdateAlways(c) == c.test = "updatepolicy"
CallsUpdatePolicyWeights(c) ==
    c.test = "updatepolicy" /\ c.cls # "TestSyncCollector"

\* policy.weight.data += 1
WeightUnchanged(w) == w
WeightAfterFirstBatch(w) == w + 1

\* total += data.numel()
TotalOverwritten(t, d) == d.numel
TotalAfterBatch(t, d) == t + d.numel

\* the action value the test asserts for last_batch
ExpectedLastAction(c) ==
    IF c.cls = "TestSyncCollector" /\ c.update_interval # 1 THEN 1 ELSE 2

\* queue.put("passed")
QueueWithoutResult(q) == q
QueueAfterPut(q) == Append(q, "passed")

(***************************************************************************)
(* The distributed collector.  Its code is not part of the sources: it is  *)
(* modelled as what the tests and the description rely on, a budgeted      *)
(* stream of batches collected by the nodes with the weights they hold.    *)
(***************************************************************************)
MaxInFlight == 1

CeilDiv(a, b) == (a + b - 1) \div b

\* batches a node may have collected ahead of their delivery; the
\* asynchronous inner collector keeps one more in its own queue
InFlightCap(cc) ==
    IF cc = "MultiaSyncDataCollector" THEN MaxInFlight + 1 ELSE MaxInFlight

\* the arguments the test constructs the collector with
ArgsWithFixedBatch(c) ==
    [kind |-> DistributedClass(c), nodes |-> c.nodes,
     total_frames |-> c.total_frames, frames_per_batch |-> 50,
     sync |-> c.sync, collector_class |-> c.collector_class,
     update_interval |-> c.update_interval]
ConstructorArgs(c) ==
    [kind |-> DistributedClass(c), nodes |-> c.nodes,
     total_frames |-> c.total_frames, frames_per_batch |-> c.frames_per_batch,
     sync |-> c.sync, collector_class |-> c.collector_class,
     update_interval |-> c.update_interval]

NoCollector ==
    [kind |-> "none", nodes |-> 0, total_frames |-> 0, frames_per_batch |-> 0,
     sync |-> FALSE, collector_class |-> "none", update_interval |-> 0,
     state |-> "none"]

NewCollector(args) ==
    [kind |-> args.kind, nodes |-> args.nodes,
     total_frames |-> args.total_frames,
     frames_per_batch |-> args.frames_per_batch,
     sync |-> args.sync, collector_class |-> args.collector_class,
     update_interval |-> args.update_interval, state |-> "running"]

\* a batch stacks one share of every node, or comes from one node
IsSync(col) == col.kind = "DistributedSyncDataCollector" \/ col.sync

\* frames a node collects for one batch
NodeShare(col) ==
    IF IsSync(col) THEN CeilDiv(col.frames_per_batch, col.nodes)
    ELSE col.frames_per_batch

BatchNumel(col) == IF IsSync(col) THEN col.nodes * NodeShare(col) ELSE NodeShare(col)

\* batches the collector delivers: it yields while fewer than total_frames
\* frames were delivered
BatchesNeeded(col) == CeilDiv(col.total_frames, BatchNumel(col))

InFlightOf(s, n) == Cardinality({k \in DOMAIN s : s[k].node = n})

\* the first batch of node n in the stream
FirstOf(s, n) ==
    CHOOSE k \in DOMAIN s :
        s[k].node = n /\ \A m \in 1..(k - 1) : s[m].node # n

RECURSIVE Without(_, _)
Without(s, K) ==
    IF s = <<>> THEN <<>>
    ELSE IF 1 \in K
      THEN Without(Tail(s), {k - 1 : k \in K \ {1}})
      ELSE <<Head(s)>> \o Without(Tail(s), {k - 1 : k \in K})

\* the stream entries the next batch is made of
NextEntries(col, s) ==
    IF IsSync(col) THEN {FirstOf(s, n) : n \in 1..col.nodes} ELSE {1}

BatchReady(col, s) ==
    IF IsSync(col) THEN \A n \in 1..col.nodes : InFlightOf(s, n) > 0
    ELSE s # <<>>

NoBatch == [numel |-> 0, actions |-> {}]

RECURSIVE SumNumel(_, _)
SumNumel(s, K) ==
    IF K = {} THEN 0
    ELSE LET k == CHOOSE x \in K : TRUE
         IN  s[k].numel + SumNumel(s, K \ {k})

BatchOf(s, K) ==
    [numel |-> SumNumel(s, K), actions |-> {s[k].weight : k \in K}]

\* update_policy_weights_(): every node gets the learner's weights
UpdatedWeights(col, w) == [n \in 1..col.nodes |-> w]

\* DistributedSyncDataCollector pushes the weights by itself before every
\* update_interval-th batch
AutoUpdates(col, jj) ==
    col.kind = "DistributedSyncDataCollector" /\ jj % col.update_interval = 0

InitTestIdle ==
    /\ cfg = Config("none", "none", 0, 0, 0, FALSE, "none", 0)
    /\ parentPc = "done"
    /\ parentFailed = FALSE
    /\ queue = <<>>
    /\ out = "none"
    /\ childPc = "exited"
    /\ collector = NoCollector
    /\ nodeWeight = <<>>
    /\ stream = <<>>
    /\ collected = 0
    /\ j = 0
    /\ policyWeight = 0
    /\ data = NoBatch
    /\ total = 0
    /\ batch_i = 0
    /\ first_batch = NoBatch
    /\ last_batch = NoBatch

InitTest ==
    /\ cfg \in TestConfigs
    /\ parentPc = "start"
    /\ parentFailed = FALSE
    /\ queue = <<>>
    /\ out = "none"
    /\ childPc = "idle"
    /\ collector = NoCollector
    /\ nodeWeight = <<>>
    /\ stream = <<>>
    /\ collected = 0
    /\ j = 0
    /\ policyWeight = 0
    /\ data = NoBatch
    /\ total = 0
    /\ batch_i = 0
    /\ first_batch = NoBatch
    /\ last_batch = NoBatch

(***************************************************************************)
(* The parent process: a test method                                       *)
(***************************************************************************)
ChildOver == childPc \in {"exited", "failed"}

\* queue = mp.Queue(1); proc = mp.Process(...); proc.start()
ParentStart ==
    /\ parentPc = "start"
    /\ queue' = <<>>
    /\ childPc' = "construct"
    /\ parentPc' = "get"
    /\ UNCHANGED <<cfg, parentFailed, out, collectorVars, learnerVars>>

\* out = queue.get(timeout=100); assert out == "passed".  The timeout is
\* taken to expire only when nothing can arrive any more: the child is over
\* and the queue is empty.
ParentGet ==
    /\ parentPc = "get"
    /\ IF queue = <<>> THEN ChildOver ELSE TRUE
    /\ IF queue # <<>>
         THEN /\ out' = Head(queue)
              /\ queue' = Tail(queue)
              /\ parentFailed' = (Head(queue) # "passed")
         ELSE /\ parentFailed' = TRUE
              /\ UNCHANGED <<out, queue>>
    /\ parentPc' = "join"
    /\ UNCHANGED <<cfg, childPc, collectorVars, learnerVars>>

\* finally: proc.join()
ParentJoin ==
    /\ parentPc = "join"
    /\ ChildOver
    /\ parentPc' = "close"
    /\ UNCHANGED <<cfg, parentFailed, out, queue, childPc, collectorVars,
                   learnerVars>>

\* queue.close(), then the pending exception, if any, leaves the test
ParentClose ==
    /\ parentPc = "close"
    /\ parentPc' = IF parentFailed THEN "raised" ELSE "done"
    /\ UNCHANGED <<cfg, parentFailed, out, queue, childPc, collectorVars,
                   learnerVars>>

(***************************************************************************)
(* The child process: the learner                                          *)
(***************************************************************************)
IsUpdatePolicy(c) == c.test = "updatepolicy"

\* env, policy, collector = cls.distributed_class()(...); total = 0
ChildConstruct ==
    /\ childPc = "construct"
    /\ collector' = NewCollector(ConstructorArgs(cfg))
    /\ policyWeight' = 1
    /\ nodeWeight' = [n \in 1..cfg.nodes |-> 1]
    /\ stream' = <<>>
    /\ collected' = 0
    /\ j' = 0
    /\ total' = 0
    /\ batch_i' = 0
    /\ first_batch' = NoBatch
    /\ last_batch' = NoBatch
    /\ childPc' = "next"
    /\ UNCHANGED <<cfg, parentVars, queue, data>>

\* for data in collector: the iterator is asked for the next batch.  It
\* stops once total_frames frames were delivered; DistributedSyncDataCollector
\* first pushes the weights when update_interval says so.
CollectorNext ==
    /\ childPc = "next"
    /\ IF collected >= collector.total_frames
         THEN /\ childPc' = IF IsUpdatePolicy(cfg) THEN "assert_batches"
                            ELSE "shutdown"
              /\ UNCHANGED nodeWeight
         ELSE /\ nodeWeight' = IF AutoUpdates(collector, j)
                                 THEN UpdatedWeights(collector, policyWeight)
                                 ELSE nodeWeight
              /\ childPc' = "recv"
    /\ UNCHANGED <<cfg, parentVars, queue, collector, stream, collected, j,
                   learnerVars>>

\* the iterator yields the next batch of the stream
CollectorRecv ==
    /\ childPc = "recv"
    /\ BatchReady(collector, stream)
    /\ LET K == NextEntries(collector, stream)
       IN  /\ data' = BatchOf(stream, K)
           /\ collected' = collected + SumNumel(stream, K)
           /\ stream' = Without(stream, K)
    /\ j' = j + 1
    /\ childPc' = "body"
    /\ UNCHANGED <<cfg, parentVars, queue, collector, nodeWeight, policyWeight,
                   total, batch_i, first_batch, last_batch>>

\* node n collects its share of a batch with the weights it holds, while
\* the budget asks for more
NodeCollect(n) ==
    /\ collector.state = "running"
    /\ InFlightOf(stream, n) < InFlightCap(collector.collector_class)
    /\ IF IsSync(collector)
         THEN j + InFlightOf(stream, n) < BatchesNeeded(collector)
         ELSE j + Len(stream) < BatchesNeeded(collector)
    /\ stream' = Append(stream, [node |-> n, weight |-> nodeWeight[n],
                                 numel |-> NodeShare(collector)])
    /\ UNCHANGED <<cfg, parentVars, queue, childPc, collector, nodeWeight,
                   collected, j, learnerVars>>

\* the loop body: total += data.numel(); assert data.numel() ==
\* frames_per_batch; in the updatepolicy tests the first batch is kept, the
\* weight is incremented (and pushed, in the base test), and the batch that
\* brings total to 2000 - frames_per_batch is kept as last_batch
ChildBody ==
    /\ childPc = "body"
    /\ total' = TotalAfterBatch(total, data)
    /\ IF data.numel # cfg.frames_per_batch
         THEN /\ childPc' = "failed"
              /\ UNCHANGED <<batch_i, first_batch, last_batch, policyWeight,
                             nodeWeight>>
         ELSE /\ childPc' = "next"
              /\ batch_i' = batch_i + 1
              /\ first_batch' = IF IsUpdatePolicy(cfg) /\ batch_i = 0
                                  THEN data ELSE first_batch
              /\ policyWeight' = IF IsUpdatePolicy(cfg) /\ batch_i = 0
                                   THEN WeightAfterFirstBatch(policyWeight)
                                   ELSE policyWeight
              /\ nodeWeight' = IF batch_i = 0 /\ CallsUpdatePolicyWeights(cfg)
                                 THEN UpdatedWeights(collector, policyWeight')
                                 ELSE nodeWeight
              /\ last_batch' = IF /\ IsUpdatePolicy(cfg)
                                  /\ batch_i # 0
                                  /\ total' = 2000 - cfg.frames_per_batch
                                 THEN data ELSE last_batch
    /\ UNCHANGED <<cfg, parentVars, queue, collector, stream, collected, j,
                   data>>

\* assert (first_batch["action"] == 1).all();
\* assert (last_batch["action"] == 2).all() (1 when TestSyncCollector's
\* update_interval is not 1); a last_batch of None raises as well
ChildAssertBatches ==
    /\ childPc = "assert_batches"
    /\ childPc' = IF /\ first_batch # NoBatch
                     /\ first_batch.actions = {1}
                     /\ last_batch # NoBatch
                     /\ last_batch.actions = {ExpectedLastAction(cfg)}
                    THEN "shutdown" ELSE "failed"
    /\ UNCHANGED <<cfg, parentVars, queue, collectorVars, learnerVars>>

\* collector.shutdown()
ChildShutdown ==
    /\ childPc = "shutdown"
    /\ collector' = [collector EXCEPT !.state = "shutdown"]
    /\ childPc' = "assert_total"
    /\ UNCHANGED <<cfg, parentVars, queue, nodeWeight, stream, collected, j,
                   learnerVars>>

\* assert total == 1000 (200, 2000, the rounded-up total)
ChildAssertTotal ==
    /\ childPc = "assert_total"
    /\ childPc' = IF total = ExpectedTotal(cfg) THEN "put" ELSE "failed"
    /\ UNCHANGED <<cfg, parentVars, queue, collectorVars, learnerVars>>

\* queue.put("passed"), and the process ends
ChildPut ==
    /\ childPc = "put"
    /\ Len(queue) < 1
    /\ queue' = QueueAfterPut(queue)
    /\ childPc' = "exited"
    /\ UNCHANGED <<cfg, parentVars, collectorVars, learnerVars>>

idleVars == <<fzVars, flVars, ppoVars, ckVars>>

Next ==
    \/ ParentStart /\ UNCHANGED idleVars
    \/ ParentGet /\ UNCHANGED idleVars
    \/ ParentJoin /\ UNCHANGED idleVars
    \/ ParentClose /\ UNCHANGED idleVars
    \/ ChildConstruct /\ UNCHANGED idleVars
    \/ CollectorNext /\ UNCHANGED idleVars
    \/ CollectorRecv /\ UNCHANGED idleVars
    \/ (\E n \in 1..cfg.nodes : NodeCollect(n)) /\ UNCHANGED idleVars
    \/ ChildBody /\ UNCHANGED idleVars
    \/ ChildAssertBatches /\ UNCHANGED idleVars
    \/ ChildShutdown /\ UNCHANGED idleVars
    \/ ChildAssertTotal /\ UNCHANGED idleVars
    \/ ChildPut /\ UNCHANGED idleVars

\* a test run, any interleaving of its processes
Init ==
    InitTest /\ InitFreezeIdle /\ InitFlattenIdle /\ InitPPOIdle /\ InitCkptIdle

Spec == Init /\ [][Next]_vars

\* a test run in which a process that can take a step is not halted forever
FairSpec == Spec /\ WF_vars(Next)

(***************************************************************************)
(* A test whose child process does not get as far as queue.put             *)
(***************************************************************************)
\* where the child is while its target function runs
ChildRunning ==
    {"construct", "next", "recv", "body", "assert_batches", "shutdown",
     "assert_total", "put"}

\* the calls of the target function that wait for another process
ChildBlockingCalls == {"construct", "recv", "shutdown"}

\* an uncaught exception (a failed assertion, an error of the collector) or
\* a signal ends the child before queue.put
ChildDies ==
    /\ childPc \in ChildRunning
    /\ childPc' = "failed"
    /\ UNCHANGED <<cfg, parentVars, queue, collectorVars, learnerVars>>

\* a call of the child never returns: the process stays alive and puts
\* nothing on the queue
ChildHangs ==
    /\ childPc \in ChildBlockingCalls
    /\ childPc' = "hung"
    /\ UNCHANGED <<cfg, parentVars, queue, collectorVars, learnerVars>>

\* queue.get(timeout=100) raises queue.Empty while the child hangs; the
\* finally block runs with the exception pending
ParentGetTimeout ==
    /\ parentPc = "get"
    /\ queue = <<>>
    /\ childPc = "hung"
    /\ parentFailed' = TRUE
    /\ parentPc' = "join"
    /\ UNCHANGED <<cfg, out, queue, childPc, collectorVars, learnerVars>>

NextFaulty ==
    \/ Next
    \/ ChildDies /\ UNCHANGED idleVars
    \/ ChildHangs /\ UNCHANGED idleVars
    \/ ParentGetTimeout /\ UNCHANGED idleVars

\* a test run in which the child may die or hang
SpecFaulty == Init /\ [][NextFaulty]_vars

InitFreezeOnly ==
    InitFreeze /\ InitFlattenIdle /\ InitPPOIdle /\ InitTestIdle
      /\ InitCkptIdle

SpecFreeze == InitFreezeOnly /\ [][NextFreeze]_vars

InitFlattenOnly ==
    InitFlatten /\ InitFreezeIdle /\ InitPPOIdle /\ InitTestIdle
      /\ InitCkptIdle

SpecFlatten == InitFlattenOnly /\ [][NextFlatten]_vars

InitPPOOnly ==
    InitPPO /\ InitFreezeIdle /\ InitFlattenIdle /\ InitTestIdle
      /\ InitCkptIdle

SpecPPO == InitPPOOnly /\ [][NextPPO]_vars

InitCkptOnly ==
    InitCkpt /\ InitFreezeIdle /\ InitFlattenIdle /\ InitPPOIdle
      /\ InitTestIdle

SpecCkpt == InitCkptOnly /\ [][NextCkpt]_vars

(***************************************************************************)
(* Claims about the training scripts                                       *)
(***************************************************************************)

\* the first step of trajectory b whose ("next", "done") flag is true, or T
FirstDoneStep(done, b, T) ==
    IF \E t \in 1..T : done[b][t]
      THEN CHOOSE t \in 1..T : done[b][t] /\ \A s \in 1..(t - 1) : ~done[b][s]
      ELSE T

\* the steps the claim says are kept, in the original order
StepsUpToFirstDone(done, B, T) ==
    RowMajor([b \in 1..B |-> [t \in 1..T |-> t <= FirstDoneStep(done, b, T)]],
             B, T)

\* C8: flatten_td on a [B, T] batch returns, for every B >= 1 and T >= 1, a
\* batch whose first dimension holds exactly the steps of every trajectory up
\* to and including its first done step (all T steps when it never finishes),
\* N <= B * T entries in the original order.
C8_FlattenKeepsUpToFirstDone ==
    flPc = "returned" =>
        /\ flOut.ok
        /\ flOut.rows = StepsUpToFirstDone(flDone, flB, flT)
        /\ Len(flOut.rows) <= flB * flT
        /\ Len(flOut.shape) >= 1
        /\ flOut.shape[1] = Len(flOut.rows)

\* C9: when the freezing loop is over, exactly the first
\* num_layers - int(0.3 * num_layers) layers have requires_grad False and
\* the last int(0.3 * num_layers) layers are still trainable.
C9_FirstSeventyPercentFrozen ==
    fzPc = "done" =>
        \A i \in 1..Len(layers) :
            (layers[i] = FALSE) <=>
                (i <= Len(layers) - IntOfThreeTenths(Len(layers)))

\* C10: every minibatch the PPO epochs train on holds only frames produced
\* by the rollouts of the current outer iteration.
C10_MinibatchFromThisIteration ==
    ppoPc = "train" => \A f \in Range(minibatch) : f = it

\* C10 witness: in a later iteration a minibatch is drawn from a buffer that
\* early-stopped generation left partly filled.
C10_Witness ==
    /\ ppoPc = "train"
    /\ it >= 2
    /\ Len(rb.storage) < RbCapacity(ppoCfg)
    /\ minibatch # <<>>

\* the iterations whose evaluation branch has run
IterationsDone == 1..(ckIt - 1)

\* metric a is strictly better than metric b: a lower validation loss in
\* train_reward, a higher validation reward in train_rlhf
StrictlyBetter(script, a, b) ==
    IF script = "train_reward" THEN a < b ELSE a > b

\* the metric evaluated at iteration k
MetricAt(k) == (CHOOSE e \in Range(evals) : e.it = k).val

\* the metrics evaluated before iteration k
MetricsBefore(k) == {e.val : e \in {x \in Range(evals) : x.it < k}}

\* the best of all metrics evaluated so far; the initial value when nothing
\* has been evaluated
RunningBest ==
    IF evals = <<>> THEN InitialBest(ckScript)
    ELSE CHOOSE v \in {e.val : e \in Range(evals)} :
            \A e \in Range(evals) : ~StrictlyBetter(ckScript, e.val, v)

IterationOver ==
    childPc \in {"assert_batches", "shutdown", "assert_total", "put", "exited"}

BaseUpdatePolicy == IsUpdatePolicy(cfg) /\ cfg.cls # "TestSyncCollector"

SyncUpdatePolicy(ui) ==
    IsUpdatePolicy(cfg) /\ cfg.cls = "TestSyncCollector"
        /\ cfg.update_interval = ui

ParentFinished == parentPc \in {"done", "raised"}

\* C12: every test's parent process terminates and cleans up: once
\* queue.get has returned or raised, proc.join() returns and queue.close()
\* is executed, also when the child fails an assertion, dies or hangs
\* without a result, so the run never comes to rest before the parent has
\* finished; and no child of a test that is past proc.join() is still alive
C12_ParentTerminatesAndCleansUp ==
    /\ ~ENABLED NextFaulty => ParentFinished
    /\ parentPc \in {"close", "done", "raised"} => ChildOver

=============================================================================
